---- MODULE Spec2Model ----
(***************************************************************************)
(* Model of src/main.py: a Flask application that keeps an in-memory task  *)
(* store (TASK_STORE), a set of sponsors marked for automatic re-sync      *)
(* (SYNC_SPONSORS), three request handlers (sync_tasks, list_tasks,        *)
(* update_task_by_fields) served by concurrent request threads, and a      *)
(* background job (periodic_sync) run by an APScheduler thread.            *)
(*                                                                         *)
(* Granularity.  The handlers run on different threads of one CPython      *)
(* process, so a thread switch can occur between any two bytecodes.  The   *)
(* replace sequence of sync_tasks / periodic_sync                          *)
(*     TASK_STORE = [t for t in TASK_STORE if ...]   (build, then bind)    *)
(*     TASK_STORE.extend(tasks)                                            *)
(* is modelled as three steps: building the filtered list, binding the     *)
(* global name to it, and extending the list the global name then refers   *)
(* to.  list_tasks and update_task_by_fields are modelled at one point of  *)
(* their execution.                                                        *)
(*                                                                         *)
(* Task dicts are Python objects: the filtered list holds the same dicts   *)
(* as the list it was built from, and update_task_by_fields mutates dicts  *)
(* in place.  Each task record therefore carries the field oid, the        *)
(* ordinal of the fetch that created the dict; (oid, source, name)         *)
(* identifies the dict, and a status write reaches every list holding it.  *)
(***************************************************************************)
EXTENDS Integers, Sequences, FiniteSets, TLC

\* ---------------------------------------------------------------- bounds
\* number of syncs (manual or periodic) whose adapter calls are made
MaxSyncs == 2

\* ------------------------------------------------------------ input sets
\* Python's None (an absent header, JSON field or query argument)
None == "<None>"

Workers == {"w1", "w2"}
Scheduler == "scheduler"
Threads == Workers \cup {Scheduler}

SponsorIds == {"sponsor-abc", "sponsor-xyz"}

\* values a request may carry
SponsorInputs == SponsorIds \cup {None, ""}
AdapterFailures == {"none", "asana"}
NameInputs == {"Finalize contract", "No such task"}
\* <<sponsor_id, source, name, status>> of update requests with all four fields
ValidUpdates ==
    {<<sponsor, "salesforce", name, "done">> : sponsor \in SponsorIds, name \in NameInputs}
\* update requests in which one field is empty or missing
InvalidUpdates ==
    { <<"", "salesforce", "Finalize contract", "done">>,
      <<"sponsor-abc", None, "Finalize contract", "done">>,
      <<"sponsor-abc", "salesforce", None, "done">>,
      <<"sponsor-abc", "salesforce", "Finalize contract", "">> }
UpdateRequests == ValidUpdates \cup InvalidUpdates
SponsorFilters == {"sponsor-abc", None, ""}
StatusFilters == {"done", None, ""}

\* Mutant of Truthy: only a missing value is rejected, an empty string passes
Truthy_NotNone(x) == x # None

\* Python truthiness of an optional string
Truthy(x) == x \notin {None, ""}

VARIABLES
    TASK_STORE,     \* the list the global name TASK_STORE is bound to
    SYNC_SPONSORS,  \* the set of sponsors to auto-sync
    pc,             \* per thread: where it is in its handler or job
    sponsor_id,     \* per thread: local sponsor_id
    tasks,          \* per thread: local list tasks
    filtered,       \* per thread: the list built by the comprehension, not yet bound
    queue,          \* scheduler: the rest of list(SYNC_SPONSORS) still to iterate
    resp,           \* the most recent HTTP response
    fetches,        \* number of fetches so far (the next one creates dicts fetches + 1)
    synced          \* sponsors for which some sync has completed its extend

vars == <<TASK_STORE, SYNC_SPONSORS, pc, sponsor_id, tasks, filtered, queue,
          resp, fetches, synced>>

\* ------------------------------------------------------------- adapters
Task(oid, sid, source, name, due, status) ==
    [oid |-> oid, sponsor_id |-> sid, source |-> source, name |-> name,
     due_date |-> due, status |-> status]

get_salesforce_tasks(sid, oid) ==
    << Task(oid, sid, "salesforce", "Finalize contract", "2025-08-01", "pending"),
       Task(oid, sid, "salesforce", "Upload logo", "2025-08-05", "pending") >>

\* Mutant of get_asana_tasks: "Post campaign assets" is still pending
get_asana_tasks_AllPending(sid, oid) ==
    << Task(oid, sid, "asana", "Post campaign assets", "2025-07-30", "pending"),
       Task(oid, sid, "asana", "Review creative brief", "2025-08-03", "pending") >>

get_asana_tasks(sid, oid) ==
    << Task(oid, sid, "asana", "Post campaign assets", "2025-07-30", "done"),
       Task(oid, sid, "asana", "Review creative brief", "2025-08-03", "pending") >>

get_google_calendar_tasks(sid, oid) ==
    << Task(oid, sid, "google_calendar", "Activation deadline", "2025-08-10", "pending"),
       Task(oid, sid, "google_calendar", "Post-event report", "2025-08-20", "pending") >>

\* Mutant of FetchAll: best effort, an adapter failure keeps what was fetched
\* before it and the sync goes on.
FetchAll_BestEffort(sid, oid, fail) ==
    [ok |-> TRUE,
     tasks |-> IF fail = "salesforce" THEN <<>>
               ELSE IF fail = "asana" THEN get_salesforce_tasks(sid, oid)
               ELSE IF fail = "google_calendar"
                 THEN get_salesforce_tasks(sid, oid) \o get_asana_tasks(sid, oid)
               ELSE get_salesforce_tasks(sid, oid) \o get_asana_tasks(sid, oid)
                    \o get_google_calendar_tasks(sid, oid)]

\* tasks = []; tasks += salesforce; tasks += asana; tasks += google_calendar.
\* fail names the adapter call that raises ("none": no call raises).  An
\* exception leaves the function at once: ok is FALSE and the partial list
\* is dropped with the frame.
FetchAll(sid, oid, fail) ==
    IF fail = "none"
      THEN [ok |-> TRUE,
            tasks |-> get_salesforce_tasks(sid, oid) \o get_asana_tasks(sid, oid)
                      \o get_google_calendar_tasks(sid, oid)]
      ELSE [ok |-> FALSE, tasks |-> <<>>]

\* Mutant of WithoutSponsor: the comparison is inverted, the sponsor's records are kept
WithoutSponsor_Inverted(store, sid) == SelectSeq(store, LAMBDA t : t.sponsor_id = sid)

\* [t for t in TASK_STORE if t['sponsor_id'] != sponsor_id]
WithoutSponsor(store, sid) ==
    SelectSeq(store, LAMBDA t : t.sponsor_id # sid)

\* Mutant of Register: a second registration removes the sponsor
Register_Toggle(set, sid) == IF sid \in set THEN set \ {sid} ELSE set \cup {sid}

\* Mutant of Register: the set is replaced by the sponsor just synced
Register_Replace(set, sid) == {sid}

\* Mutant of Register: the sponsor is not recorded at all
Register_Forget(set, sid) == set

\* SYNC_SPONSORS.add(sponsor_id)
Register(set, sid) == set \cup {sid}

\* jsonify: the wire form of a list of task dicts (object identity is not sent)
Json(seq) ==
    [i \in DOMAIN seq |->
        [sponsor_id |-> seq[i].sponsor_id, source |-> seq[i].source,
         name |-> seq[i].name, due_date |-> seq[i].due_date,
         status |-> seq[i].status]]

Response(op, code, body) == [op |-> op, code |-> code, body |-> body]

\* Mutant of ListResults: the status filter is applied to the whole store
ListResults_StatusOverStore(store, sponsor, status) ==
    IF Truthy(status)
      THEN SelectSeq(store, LAMBDA t : t.status = status)
    ELSE IF Truthy(sponsor)
      THEN SelectSeq(store, LAMBDA t : t.sponsor_id = sponsor)
    ELSE store

\* results = TASK_STORE; if sponsor: results = [...]; if status: results = [...]
ListResults(store, sponsor, status) ==
    LET bySponsor == IF Truthy(sponsor)
                       THEN SelectSeq(store, LAMBDA t : t.sponsor_id = sponsor)
                       ELSE store
    IN  IF Truthy(status)
          THEN SelectSeq(bySponsor, LAMBDA t : t.status = status)
          ELSE bySponsor

\* the condition of the loop body of update_task_by_fields
Matches(t, sponsor, source, name) ==
    /\ t.sponsor_id = sponsor
    /\ t.source = source
    /\ t.name = name

\* Mutant of UpdateStatus: the name is not compared
UpdateStatus_IgnoreName(store, sponsor, source, name, new_status) ==
    [i \in DOMAIN store |->
        IF store[i].sponsor_id = sponsor /\ store[i].source = source
          THEN [store[i] EXCEPT !.status = new_status]
          ELSE store[i]]

\* Mutant of UpdateStatus: the loop stops at the first match
UpdateStatus_FirstOnly(store, sponsor, source, name, new_status) ==
    [i \in DOMAIN store |->
        IF /\ Matches(store[i], sponsor, source, name)
           /\ \A j \in 1..(i - 1) : ~Matches(store[j], sponsor, source, name)
          THEN [store[i] EXCEPT !.status = new_status]
          ELSE store[i]]

\* for task in TASK_STORE: if <match>: task['status'] = new_status
UpdateStatus(store, sponsor, source, name, new_status) ==
    [i \in DOMAIN store |->
        IF Matches(store[i], sponsor, source, name)
          THEN [store[i] EXCEPT !.status = new_status]
          ELSE store[i]]

\* matched = True was executed for at least one task
Matched(store, sponsor, source, name) ==
    \E i \in DOMAIN store : Matches(store[i], sponsor, source, name)

\* The same status write as seen through another list: it reaches exactly
\* the dicts of seq that are in store (same oid) and match the key.
WriteThrough(seq, store, sponsor, source, name, new_status) ==
    [i \in DOMAIN seq |->
        IF /\ Matches(seq[i], sponsor, source, name)
           /\ \E j \in DOMAIN store : /\ store[j].oid = seq[i].oid
                                      /\ Matches(store[j], sponsor, source, name)
          THEN [seq[i] EXCEPT !.status = new_status]
          ELSE seq[i]]

\* ---------------------------------------------------------------- state
Init ==
    /\ TASK_STORE = <<>>
    /\ SYNC_SPONSORS = {}
    /\ pc = [t \in Threads |-> "idle"]
    /\ sponsor_id = [t \in Threads |-> None]
    /\ tasks = [t \in Threads |-> <<>>]
    /\ filtered = [t \in Threads |-> <<>>]
    /\ queue = <<>>
    /\ resp = Response("none", 0, <<>>)
    /\ fetches = 0
    /\ synced = {}

locals == <<pc, sponsor_id, tasks, filtered>>

\* sponsors of a running periodic_sync whose adapter calls are still to come
Pending ==
    IF pc[Scheduler] = "loop" THEN Len(queue)
    ELSE IF queue = <<>> THEN 0 ELSE Len(queue) - 1

\* A handler that ends without touching any shared or local state
Reply(op, code, body) ==
    /\ resp' = Response(op, code, body)
    /\ UNCHANGED <<TASK_STORE, SYNC_SPONSORS, locals, queue, fetches, synced>>

\* a thread leaves its handler: its frame's locals are gone
Leave(w) ==
    /\ pc' = [pc EXCEPT ![w] = "idle"]
    /\ sponsor_id' = [sponsor_id EXCEPT ![w] = None]
    /\ tasks' = [tasks EXCEPT ![w] = <<>>]
    /\ filtered' = [filtered EXCEPT ![w] = <<>>]

\* ------------------------------------------------------ check_api_key
\* A request whose X-API-KEY header is not API_KEY is aborted by the first
\* statement of its handler; the handlers below are those of requests that
\* carry the key.
check_api_key ==
    /\ resp' = Response("any", 401, <<>>)
    /\ UNCHANGED <<TASK_STORE, SYNC_SPONSORS, locals, queue, fetches, synced>>

\* ------------------------------------------------- POST /sync-tasks
\* check_api_key, input validation, SYNC_SPONSORS.add and the three adapter
\* calls (lines 91-104).  The adapters touch no shared state.
sync_tasks(w, sid, fail) ==
    /\ pc[w] = "idle"
    /\ IF ~Truthy(sid)
         THEN Reply("sync", 400, <<>>)
       ELSE
         LET got == FetchAll(sid, fetches + 1, fail) IN
         /\ SYNC_SPONSORS' = Register(SYNC_SPONSORS, sid)
         /\ IF got.ok
              THEN /\ fetches + Pending < MaxSyncs
                   /\ pc' = [pc EXCEPT ![w] = "fetched"]
                   /\ sponsor_id' = [sponsor_id EXCEPT ![w] = sid]
                   /\ tasks' = [tasks EXCEPT ![w] = got.tasks]
                   /\ fetches' = fetches + 1
                   /\ UNCHANGED <<filtered, resp>>
              ELSE /\ resp' = Response("sync", 500, <<>>)
                   /\ UNCHANGED <<locals, fetches>>
         /\ UNCHANGED <<TASK_STORE, queue, synced>>

\* line 108, right-hand side: the comprehension builds a new list
sync_filter(w) ==
    /\ w \in Workers
    /\ pc[w] = "fetched"
    /\ filtered' = [filtered EXCEPT ![w] = WithoutSponsor(TASK_STORE, sponsor_id[w])]
    /\ pc' = [pc EXCEPT ![w] = "filtered"]
    /\ UNCHANGED <<TASK_STORE, SYNC_SPONSORS, sponsor_id, tasks, queue, resp,
                   fetches, synced>>

\* line 108, the assignment: the global name is bound to the new list
sync_store(w) ==
    /\ w \in Workers
    /\ pc[w] = "filtered"
    /\ TASK_STORE' = filtered[w]
    /\ pc' = [pc EXCEPT ![w] = "stored"]
    /\ UNCHANGED <<SYNC_SPONSORS, sponsor_id, tasks, filtered, queue, resp,
                   fetches, synced>>

\* lines 109-111: extend the list the global name refers to now, and answer
sync_extend(w) ==
    /\ w \in Workers
    /\ pc[w] = "stored"
    /\ TASK_STORE' = TASK_STORE \o tasks[w]
    /\ synced' = synced \cup {sponsor_id[w]}
    /\ resp' = Response("sync", 200, Json(tasks[w]))
    /\ Leave(w)
    /\ UNCHANGED <<SYNC_SPONSORS, queue, fetches>>

\* ------------------------------------------------------- GET /tasks
list_tasks(sponsor, status) ==
    /\ resp' = Response("list", 200, Json(ListResults(TASK_STORE, sponsor, status)))
    /\ UNCHANGED <<TASK_STORE, SYNC_SPONSORS, locals, queue, fetches, synced>>

\* ----------------------------------------------------- PATCH /tasks
update_task_by_fields(sponsor, source, name, new_status) ==
    IF ~(Truthy(sponsor) /\ Truthy(source) /\ Truthy(name) /\ Truthy(new_status))
      THEN Reply("update", 400, <<>>)
    ELSE
      /\ TASK_STORE' = UpdateStatus(TASK_STORE, sponsor, source, name, new_status)
      /\ tasks' = [t \in Threads |->
                     WriteThrough(tasks[t], TASK_STORE, sponsor, source, name, new_status)]
      /\ filtered' = [t \in Threads |->
                     WriteThrough(filtered[t], TASK_STORE, sponsor, source, name, new_status)]
      /\ resp' = IF Matched(TASK_STORE, sponsor, source, name)
                   THEN Response("update", 200, <<>>)
                   ELSE Response("update", 404, <<>>)
      /\ UNCHANGED <<SYNC_SPONSORS, pc, sponsor_id, queue, fetches, synced>>

\* --------------------------------------------------- periodic_sync
\* all orders in which list(SYNC_SPONSORS) can enumerate the set
Orders(set) ==
    {q \in [1..Cardinality(set) -> set] :
        \A i, j \in DOMAIN q : i # j => q[i] # q[j]}

\* the job starts: for sponsor_id in list(SYNC_SPONSORS) takes its copy
periodic_sync ==
    /\ pc[Scheduler] = "idle"
    /\ fetches + Cardinality(SYNC_SPONSORS) <= MaxSyncs
    /\ \E q \in Orders(SYNC_SPONSORS) :
          /\ queue' = q
          /\ pc' = [pc EXCEPT ![Scheduler] = IF q = <<>> THEN "idle" ELSE "loop"]
    /\ UNCHANGED <<TASK_STORE, SYNC_SPONSORS, sponsor_id, tasks, filtered, resp,
                   fetches, synced>>

\* lines 157-161: next sponsor of the copy, and the three adapter calls.
\* An exception raised by an adapter call leaves periodic_sync.
periodic_fetch(fail) ==
    /\ pc[Scheduler] = "loop"
    /\ LET sid == Head(queue)
           got == FetchAll(sid, fetches + 1, fail)
       IN  IF got.ok
             THEN /\ pc' = [pc EXCEPT ![Scheduler] = "fetched"]
                  /\ sponsor_id' = [sponsor_id EXCEPT ![Scheduler] = sid]
                  /\ tasks' = [tasks EXCEPT ![Scheduler] = got.tasks]
                  /\ fetches' = fetches + 1
                  /\ UNCHANGED <<filtered, queue>>
             ELSE /\ Leave(Scheduler)
                  /\ queue' = <<>>
                  /\ UNCHANGED fetches
    /\ UNCHANGED <<TASK_STORE, SYNC_SPONSORS, resp, synced>>

\* line 164, right-hand side
periodic_filter ==
    /\ pc[Scheduler] = "fetched"
    /\ filtered' = [filtered EXCEPT
                      ![Scheduler] = WithoutSponsor(TASK_STORE, sponsor_id[Scheduler])]
    /\ pc' = [pc EXCEPT ![Scheduler] = "filtered"]
    /\ UNCHANGED <<TASK_STORE, SYNC_SPONSORS, sponsor_id, tasks, queue, resp,
                   fetches, synced>>

\* line 164, the assignment
periodic_store ==
    /\ pc[Scheduler] = "filtered"
    /\ TASK_STORE' = filtered[Scheduler]
    /\ pc' = [pc EXCEPT ![Scheduler] = "stored"]
    /\ UNCHANGED <<SYNC_SPONSORS, sponsor_id, tasks, filtered, queue, resp,
                   fetches, synced>>

\* line 165, and the loop goes on to the next sponsor or ends
periodic_extend ==
    /\ pc[Scheduler] = "stored"
    /\ TASK_STORE' = TASK_STORE \o tasks[Scheduler]
    /\ synced' = synced \cup {sponsor_id[Scheduler]}
    /\ queue' = Tail(queue)
    /\ pc' = [pc EXCEPT ![Scheduler] = IF Tail(queue) = <<>> THEN "idle" ELSE "loop"]
    /\ sponsor_id' = [sponsor_id EXCEPT ![Scheduler] = None]
    /\ tasks' = [tasks EXCEPT ![Scheduler] = <<>>]
    /\ filtered' = [filtered EXCEPT ![Scheduler] = <<>>]
    /\ UNCHANGED <<SYNC_SPONSORS, resp, fetches>>

\* ------------------------------------------------------------ behaviour
Next ==
    \/ check_api_key
    \/ \E w \in Workers, sid \in SponsorInputs, fail \in AdapterFailures :
          sync_tasks(w, sid, fail)
    \/ \E w \in Workers : sync_filter(w)
    \/ \E w \in Workers : sync_store(w)
    \/ \E w \in Workers : sync_extend(w)
    \/ \E sponsor \in SponsorFilters, status \in StatusFilters :
          list_tasks(sponsor, status)
    \/ \E u \in UpdateRequests : update_task_by_fields(u[1], u[2], u[3], u[4])
    \/ periodic_sync
    \/ \E fail \in AdapterFailures : periodic_fetch(fail)
    \/ periodic_filter
    \/ periodic_store
    \/ periodic_extend

Spec == Init /\ [][Next]_vars

\* no thread is between its adapter calls and the end of its replace
Quiet == \A t \in Threads : pc[t] \notin {"fetched", "filtered", "stored"}

\* the runs in which every sync runs from its adapter calls to its extend
\* (lines 101-109, 159-165) with no step of another thread or request in
\* between: a request or a job step is taken only when no sync is under way
NextSeq ==
    \/ Quiet /\ check_api_key
    \/ \E w \in Workers, sid \in SponsorInputs, fail \in AdapterFailures :
          Quiet /\ sync_tasks(w, sid, fail)
    \/ \E w \in Workers : sync_filter(w)
    \/ \E w \in Workers : sync_store(w)
    \/ \E w \in Workers : sync_extend(w)
    \/ \E sponsor \in SponsorFilters, status \in StatusFilters :
          Quiet /\ list_tasks(sponsor, status)
    \/ \E u \in UpdateRequests :
          Quiet /\ update_task_by_fields(u[1], u[2], u[3], u[4])
    \/ Quiet /\ periodic_sync
    \/ \E fail \in AdapterFailures : Quiet /\ periodic_fetch(fail)
    \/ periodic_filter
    \/ periodic_store
    \/ periodic_extend

SpecSeq == Init /\ [][NextSeq]_vars

\* ============================================================== claims
\* the records of one sponsor, in store order
Slice(store, sid) == SelectSeq(store, LAMBDA t : t.sponsor_id = sid)

\* what the three adapters return for a sponsor now, in adapter order
AdapterOutput(sid) ==
    Json(get_salesforce_tasks(sid, 0) \o get_asana_tasks(sid, 0)
         \o get_google_calendar_tasks(sid, 0))

\* the (sponsor_id, source, name) keys of a list, in order
Keys(seq) == [i \in DOMAIN seq |-> <<seq[i].sponsor_id, seq[i].source, seq[i].name>>]

\* thread t takes the step that ends its replace (line 109 / line 165)
CompletesSync(t) == pc[t] = "stored" /\ pc'[t] # "stored"

\* thread t takes a step of its replace sequence (lines 108-109 / 164-165)
ReplaceStep(t) == pc[t] \in {"fetched", "filtered", "stored"} /\ pc'[t] # pc[t]

\* C1 (replace atomicity): in the state reached by the step that completes a
\* sync of sponsor S, manual or periodic, the store's records of S are exactly
\* the adapters' current outputs for S, each once and in adapter order.
C1_ReplaceAtomicity ==
    [][\A t \in Threads :
          CompletesSync(t) =>
             Json(Slice(TASK_STORE', sponsor_id[t])) = AdapterOutput(sponsor_id[t])]_vars

\* C2 (partition isolation): no step of a sync of sponsor A changes the
\* sequence of records stored for another sponsor B.
C2_PartitionIsolation ==
    [][\A t \in Threads :
          ReplaceStep(t) =>
             \A B \in SponsorIds \ {sponsor_id[t]} :
                Slice(TASK_STORE', B) = Slice(TASK_STORE, B)]_vars

\* C3 (no torn read): a listing of sponsor S, who has been synced before and
\* is the only sponsor there is, returns every record of S, also while a
\* re-sync of S is running.
C3_NoTornRead ==
    [][\A S \in SponsorIds :
          (list_tasks(S, None) /\ S \in synced /\ SYNC_SPONSORS = {S}) =>
             \A k \in DOMAIN AdapterOutput(S) :
                \E i \in DOMAIN resp'.body :
                   Keys(resp'.body)[i] = Keys(AdapterOutput(S))[k]]_vars

\* C4 (same-sponsor replacements are linearizable): when every sync that was
\* ever started was for sponsor S and all of them have completed, the store
\* holds the records of S exactly once, in adapter order.
C4_SameSponsorLinearizable ==
    \A S \in SponsorIds :
       (/\ SYNC_SPONSORS = {S}
        /\ S \in synced
        /\ \A t \in Threads : pc[t] = "idle")
       => Keys(TASK_STORE) = Keys(AdapterOutput(S))

\* C5 (failure atomicity): a sync, manual or periodic, in which an adapter
\* call fails leaves the store as it was, and a thread takes the steps of the
\* replace only with the complete output of all three adapters.
C5_FailureAtomicity ==
    [][/\ \A w \in Workers, sid \in SponsorIds, fail \in AdapterFailures \ {"none"} :
             (resp'.code = 500 /\ sync_tasks(w, sid, fail)) => TASK_STORE' = TASK_STORE
       /\ \A fail \in AdapterFailures \ {"none"} :
             periodic_fetch(fail) => TASK_STORE' = TASK_STORE
       /\ \A t \in Threads :
             ReplaceStep(t) => Json(tasks[t]) = AdapterOutput(sponsor_id[t])]_vars

\* a manual sync has failed while the store held records
C5_Witness ==
    /\ resp.op = "sync"
    /\ resp.code = 500
    /\ TASK_STORE # <<>>

\* the key (sponsor, source, name) matches no stored record
NoStoredMatch(sponsor, source, name) ==
    \A i \in DOMAIN TASK_STORE :
       \/ TASK_STORE[i].sponsor_id # sponsor
       \/ TASK_STORE[i].source # source
       \/ TASK_STORE[i].name # name

\* C6 (update, not found): an update whose key matches no stored record
\* answers 404 and leaves the store and the registered set as they were.
C6_UpdateNotFound ==
    [][\A u \in ValidUpdates :
          (/\ resp'.op = "update"
           /\ NoStoredMatch(u[1], u[2], u[3])
           /\ update_task_by_fields(u[1], u[2], u[3], u[4]))
          => /\ resp'.code = 404
             /\ TASK_STORE' = TASK_STORE
             /\ SYNC_SPONSORS' = SYNC_SPONSORS]_vars

\* an update was answered 404 while the store held records
C6_Witness ==
    /\ resp.op = "update"
    /\ resp.code = 404
    /\ TASK_STORE # <<>>

\* C7 (update, matches): an update whose key matches at least one stored
\* record answers 200, sets status on every record with that key, and leaves
\* every other record, every other field, and the number and order of the
\* records as they were.
C7_UpdateAllMatches ==
    [][\A u \in ValidUpdates :
          (/\ resp'.op = "update"
           /\ ~NoStoredMatch(u[1], u[2], u[3])
           /\ update_task_by_fields(u[1], u[2], u[3], u[4]))
          => /\ resp'.code = 200
             /\ Len(TASK_STORE') = Len(TASK_STORE)
             /\ \A i \in DOMAIN TASK_STORE :
                   IF /\ TASK_STORE[i].sponsor_id = u[1]
                      /\ TASK_STORE[i].source = u[2]
                      /\ TASK_STORE[i].name = u[3]
                     THEN TASK_STORE'[i] = [TASK_STORE[i] EXCEPT !.status = u[4]]
                     ELSE TASK_STORE'[i] = TASK_STORE[i]]_vars

\* an update has reached two stored records with the same key, while another
\* sponsor's record with the same source and name kept its status
C7_Witness ==
    /\ resp.op = "update"
    /\ resp.code = 200
    /\ \E i, j \in DOMAIN TASK_STORE :
          /\ i < j
          /\ TASK_STORE[i].name = "Finalize contract"
          /\ TASK_STORE[j].name = "Finalize contract"
          /\ TASK_STORE[i].sponsor_id = TASK_STORE[j].sponsor_id
          /\ TASK_STORE[i].status = "done"
          /\ TASK_STORE[j].status = "done"
    /\ \E k \in DOMAIN TASK_STORE : TASK_STORE[k].status = "pending"

\* the records that equal every filter that is present (not None)
ListingOfPresent(sponsor, status) ==
    Json(SelectSeq(TASK_STORE,
                   LAMBDA t : /\ sponsor # None => t.sponsor_id = sponsor
                              /\ status # None => t.status = status))

\* the records that equal every filter that is present and not empty
ListingOfNonEmpty(sponsor, status) ==
    Json(SelectSeq(TASK_STORE,
                   LAMBDA t : /\ sponsor \notin {None, ""} => t.sponsor_id = sponsor
                              /\ status \notin {None, ""} => t.status = status))

\* C8 as stated (filter correctness): a listing returns exactly the records
\* that equal each filter that is given, in store order, and changes neither
\* the store nor the registered set.
C8_FilterCorrectness_Original ==
    [][\A sponsor \in SponsorFilters, status \in StatusFilters :
          (resp'.op = "list" /\ list_tasks(sponsor, status))
          => /\ resp'.body = ListingOfPresent(sponsor, status)
             /\ TASK_STORE' = TASK_STORE
             /\ SYNC_SPONSORS' = SYNC_SPONSORS]_vars

\* C8 as amended: the same, a filter counting as given only when it is a
\* non-empty string (an empty filter is treated like an omitted one).
C8_FilterCorrectness ==
    [][\A sponsor \in SponsorFilters, status \in StatusFilters :
          (resp'.op = "list" /\ list_tasks(sponsor, status))
          => /\ resp'.body = ListingOfNonEmpty(sponsor, status)
             /\ TASK_STORE' = TASK_STORE
             /\ SYNC_SPONSORS' = SYNC_SPONSORS]_vars

\* a listing with both filters returned some records of a store that holds
\* "done" records of two sponsors
C8_Witness ==
    /\ resp.op = "list"
    /\ resp.body # <<>>
    /\ \A i \in DOMAIN resp.body :
          resp.body[i].sponsor_id = "sponsor-abc" /\ resp.body[i].status = "done"
    /\ \E i \in DOMAIN TASK_STORE :
          TASK_STORE[i].sponsor_id = "sponsor-xyz" /\ TASK_STORE[i].status = "done"
    /\ \E i \in DOMAIN TASK_STORE :
          TASK_STORE[i].sponsor_id = "sponsor-abc" /\ TASK_STORE[i].status = "pending"

\* C9 (registration idempotence): a manual sync of S leaves S registered,
\* and a manual sync of a sponsor that is registered already leaves the
\* registered set as it was.
C9_RegistrationIdempotent ==
    [][\A w \in Workers, sid \in SponsorIds, fail \in AdapterFailures :
          ((pc'[w] = "fetched" \/ resp'.code = 500) /\ sync_tasks(w, sid, fail))
          => /\ sid \in SYNC_SPONSORS'
             /\ sid \in SYNC_SPONSORS => SYNC_SPONSORS' = SYNC_SPONSORS]_vars

\* two manual syncs of the same sponsor are running: it was registered twice
C9_Witness ==
    /\ pc["w1"] # "idle"
    /\ pc["w2"] # "idle"
    /\ sponsor_id["w1"] = sponsor_id["w2"]
    /\ SYNC_SPONSORS = {sponsor_id["w1"]}

\* some step of the background job
PeriodicStep ==
    \/ periodic_sync
    \/ \E fail \in AdapterFailures : periodic_fetch(fail)
    \/ periodic_filter
    \/ periodic_store
    \/ periodic_extend

\* C10 (the registered set only grows, through manual sync only): no step
\* removes a sponsor; a step that adds one is a manual sync of it and adds
\* nothing else; the background job, listings and updates leave the set as
\* it was.
C10_RegisteredOnlyGrows ==
    [][/\ SYNC_SPONSORS \subseteq SYNC_SPONSORS'
       /\ SYNC_SPONSORS' # SYNC_SPONSORS =>
             \E w \in Workers, sid \in SponsorIds, fail \in AdapterFailures :
                /\ sync_tasks(w, sid, fail)
                /\ SYNC_SPONSORS' = SYNC_SPONSORS \cup {sid}
       /\ (<<pc[Scheduler], queue>>' # <<pc[Scheduler], queue>> /\ PeriodicStep)
          => SYNC_SPONSORS' = SYNC_SPONSORS
       /\ (resp'.op = "list" /\ \E sponsor \in SponsorFilters, status \in StatusFilters :
              list_tasks(sponsor, status)) => SYNC_SPONSORS' = SYNC_SPONSORS
       /\ (resp'.op = "update" /\ \E u \in UpdateRequests :
              update_task_by_fields(u[1], u[2], u[3], u[4]))
          => SYNC_SPONSORS' = SYNC_SPONSORS]_vars

\* both sponsors are registered and the background job has re-synced one
C10_Witness ==
    /\ SYNC_SPONSORS = SponsorIds
    /\ pc[Scheduler] = "loop"
    /\ Len(queue) = 1
    /\ synced # {}

\* C11 (invalid input mutates nothing): a manual sync whose sponsor_id is
\* missing or empty, and an update in which one of the four fields is missing
\* or empty, are answered 400 and leave the store and the registered set as
\* they were.
C11_InvalidInputMutatesNothing ==
    [][/\ \A w \in Workers, sid \in {None, ""}, fail \in AdapterFailures :
             ((pc'[w] = "fetched" \/ resp'.op = "sync") /\ sync_tasks(w, sid, fail))
             => /\ resp'.code = 400
                /\ TASK_STORE' = TASK_STORE
                /\ SYNC_SPONSORS' = SYNC_SPONSORS
       /\ \A u \in InvalidUpdates :
             (resp'.op = "update" /\ update_task_by_fields(u[1], u[2], u[3], u[4]))
             => /\ resp'.code = 400
                /\ TASK_STORE' = TASK_STORE
                /\ SYNC_SPONSORS' = SYNC_SPONSORS]_vars

\* an update was answered 400 while the store held the record it names
C11_Witness ==
    /\ resp.op = "update"
    /\ resp.code = 400
    /\ \E i \in DOMAIN TASK_STORE :
          /\ TASK_STORE[i].sponsor_id = "sponsor-abc"
          /\ TASK_STORE[i].name = "Finalize contract"
          /\ TASK_STORE[i].status = "pending"

\* the six records of the scenario, as a listing shows them
ScenarioRecords ==
    << [sponsor_id |-> "sponsor-abc", source |-> "salesforce",
        name |-> "Finalize contract", due_date |-> "2025-08-01", status |-> "pending"],
       [sponsor_id |-> "sponsor-abc", source |-> "salesforce",
        name |-> "Upload logo", due_date |-> "2025-08-05", status |-> "pending"],
       [sponsor_id |-> "sponsor-abc", source |-> "asana",
        name |-> "Post campaign assets", due_date |-> "2025-07-30", status |-> "done"],
       [sponsor_id |-> "sponsor-abc", source |-> "asana",
        name |-> "Review creative brief", due_date |-> "2025-08-03", status |-> "pending"],
       [sponsor_id |-> "sponsor-abc", source |-> "google_calendar",
        name |-> "Activation deadline", due_date |-> "2025-08-10", status |-> "pending"],
       [sponsor_id |-> "sponsor-abc", source |-> "google_calendar",
        name |-> "Post-event report", due_date |-> "2025-08-20", status |-> "pending"] >>

\* the same after "Finalize contract" was set to "done"
ScenarioUpdated == [ScenarioRecords EXCEPT ![1].status = "done"]

\* C12 (scenario): the first sync there is, a manual sync of "sponsor-abc"
\* into the empty store, leaves exactly the six records (two per source, all
\* "pending" but asana "Post campaign assets"); from that store
\* UpdateStatus("sponsor-abc", "salesforce", "Finalize contract", "done")
\* changes the status of that one record only; from the store so reached a
\* listing with status "done" returns exactly two records.
C12_Scenario ==
    [][/\ \A w \in Workers :
             (/\ CompletesSync(w)
              /\ sponsor_id[w] = "sponsor-abc"
              /\ fetches = 1
              /\ TASK_STORE = <<>>)
             => Json(TASK_STORE') = ScenarioRecords
       /\ (/\ resp'.op = "update"
           /\ Json(TASK_STORE) = ScenarioRecords
           /\ update_task_by_fields("sponsor-abc", "salesforce",
                                    "Finalize contract", "done"))
          => /\ resp'.code = 200
             /\ Json(TASK_STORE') = ScenarioUpdated
       /\ (/\ resp'.op = "list"
           /\ Json(TASK_STORE) = ScenarioUpdated
           /\ list_tasks(None, "done"))
          => /\ Len(resp'.body) = 2
             /\ resp'.body = <<ScenarioUpdated[1], ScenarioUpdated[3]>>]_vars

\* the scenario has run to its end: one sync, the update, the listing
C12_Witness ==
    /\ fetches = 1
    /\ Json(TASK_STORE) = ScenarioUpdated
    /\ resp.op = "list"
    /\ Len(resp.body) = 2

\* C13 (failure isolation in a tick): when an adapter call fails for one
\* sponsor of a running periodic_sync, the job goes on with the sponsors that
\* are left in its copy of the registered set.
C13_TickFailureIsolation ==
    [][\A fail \in AdapterFailures \ {"none"} :
          (pc[Scheduler] = "loop" /\ periodic_fetch(fail))
          => queue' = Tail(queue)]_vars

\* C14 (tick snapshot): a running periodic_sync works on the sponsors that
\* were registered when it took its copy: the copy holds each of them once,
\* none is added to it, the job takes them from it one by one, each when its
\* sync completes or its adapter call has failed, and the job ends only on
\* the last one.
C14_TickSnapshot ==
    [][/\ (pc[Scheduler] = "idle" /\ periodic_sync)
          => /\ {queue'[i] : i \in DOMAIN queue'} = SYNC_SPONSORS
             /\ Len(queue') = Cardinality(SYNC_SPONSORS)
       /\ (pc[Scheduler] # "idle" /\ queue' # queue)
          => /\ queue' = Tail(queue)
             /\ \/ CompletesSync(Scheduler) /\ sponsor_id[Scheduler] = Head(queue)
                \/ pc[Scheduler] = "loop"
       /\ (pc[Scheduler] # "idle" /\ pc'[Scheduler] = "idle")
          => Len(queue) = 1]_vars

\* C15 (records only of registered sponsors): every record of the store has a
\* sponsor_id that is in SYNC_SPONSORS.
C15_RecordsOfRegistered ==
    \A i \in DOMAIN TASK_STORE : TASK_STORE[i].sponsor_id \in SYNC_SPONSORS

\* the store holds records, and a registered sponsor has none in it
C15_Witness ==
    /\ TASK_STORE # <<>>
    /\ \E s \in SYNC_SPONSORS : Slice(TASK_STORE, s) = <<>>

\* C16 (an update does not survive a sync): in the state reached by the step
\* that completes a sync of sponsor S, every record of S in the store has the
\* status the adapters return for its (source, name).
C16_UpdateOverwritten ==
    [][\A t \in Threads :
          CompletesSync(t) =>
             \A i \in DOMAIN TASK_STORE' :
                TASK_STORE'[i].sponsor_id = sponsor_id[t]
                => \E j \in DOMAIN AdapterOutput(sponsor_id[t]) :
                      /\ AdapterOutput(sponsor_id[t])[j].source = TASK_STORE'[i].source
                      /\ AdapterOutput(sponsor_id[t])[j].name = TASK_STORE'[i].name
                      /\ AdapterOutput(sponsor_id[t])[j].status = TASK_STORE'[i].status]_vars

\* the records of other sponsors than sid, in the order the store has them
Others(store, sid) == SelectSeq(store, LAMBDA t : t.sponsor_id # sid)

\* the store ends with one copy of what the adapters return for sid, and has
\* no other record of sid: the store a sync of sid leaves
EndsWithSync(store, sid) ==
    /\ Json(Slice(store, sid)) = AdapterOutput(sid)
    /\ store = Others(store, sid) \o Slice(store, sid)

====
